---- MODULE Spec2Model ----
(***************************************************************************)
(* Model of mobc-surrealdb's connection manager (src/src/lib.rs): the      *)
(* mobc Manager implementation for SurrealDB.  `connect` dials the         *)
(* composed URL and signs in as root; `check` probes an existing           *)
(* connection with "RETURN 1".  Both are async: each .await is a           *)
(* suspension point, so every call is a sequence of steps of a task.       *)
(* The SurrealDB client and server, and the pool that calls the manager,   *)
(* are the environment.                                                    *)
(***************************************************************************)
EXTENDS Integers, Sequences, FiniteSets, TLC

\* ---------------------------------------------------------------- bounds
NumTasks == 2        \* pool workers calling the manager concurrently
MaxSessions == 2     \* sessions the client library opens in one run
MaxRefs == 2         \* strong references to one Arc

Tasks == 1..NumTasks
SessionIds == 1..MaxSessions
NoSession == 0

\* ------------------------------------------------- endpoint descriptor
Protocols == {"Http", "Https", "Ws", "Wss"}

\* as_str as it would be with the arm of Ws copied to Wss.
as_str_copied(p) ==
    CASE p = "Http"  -> "http://"
      [] p = "Https" -> "https://"
      [] p = "Ws"    -> "ws://"
      [] p = "Wss"   -> "ws://"

\* ConnectionProtocol::as_str
as_str(p) ==
    CASE p = "Http"  -> "http://"
      [] p = "Https" -> "https://"
      [] p = "Ws"    -> "ws://"
      [] p = "Wss"   -> "wss://"

\* new as it would be were the default protocol Http.
new_http(db_url, db_user, db_password) ==
    [protocol |-> "Http", db_url |-> db_url,
     db_user |-> db_user, db_password |-> db_password]

\* SurrealDBConnectionManager::new: the protocol defaults to Ws
new(db_url, db_user, db_password) ==
    [protocol |-> "Ws", db_url |-> db_url,
     db_user |-> db_user, db_password |-> db_password]

\* SurrealDBConnectionManager::new_with_protocol
new_with_protocol(protocol, db_url, db_user, db_password) ==
    [protocol |-> protocol, db_url |-> db_url,
     db_user |-> db_user, db_password |-> db_password]

\* format!("{}{}", self.protocol.as_str(), self.db_url)
full_url_of(m) == as_str(m.protocol) \o m.db_url

\* surrealdb::opt::auth::Root { username: self.db_user, password: self.db_password }
signin_args(m) == <<m.db_user, m.db_password>>

\* The text of the probe: conn.query("RETURN 1")
probe_text == "RETURN 1"

\* ------------------------------------------------------- the environment
\* The server of the example: it listens on ws://127.0.0.1:8000 and accepts
\* root/root.
ServerAddress == "127.0.0.1:8000"
RootUser == "root"
RootPassword == "root"
ServerUrls == {"ws://" \o ServerAddress}

\* What a manager may be constructed with.
Addresses == {ServerAddress, "localhost:9/", "//localhost:9//", ""}
Users == {RootUser}
Passwords == {RootPassword, "hunter2"}

\* Error values.  surrealdb::Error is one type for every step; the client
\* reports a transport failure with the same value whichever call met it.
NoErr == "none"
ErrTransport == "Api::Ws"                \* connection refused/reset/timeout
ErrInvalidAuth == "Db::InvalidAuth"      \* the server rejects the credentials
ErrNotAllowed == "Db::NotAllowed"        \* a statement the session may not run
ErrFromValue == "Api::FromValue"         \* the value does not deserialize
ErrHealthCheck == "Api::Query(Health check failed)"   \* built by check

DialErrors == {ErrTransport}
SigninErrors == {ErrTransport, ErrInvalidAuth}
QueryErrors == {ErrTransport}

\* Result<Self::Connection, Self::Error>
Ok(h) == [ok |-> TRUE, handle |-> h, err |-> NoErr]
Err(e) == [ok |-> FALSE, handle |-> NoSession, err |-> e]
NoResult == [ok |-> FALSE, handle |-> NoSession, err |-> NoErr]

\* A session of the client library, as the server and the client see it,
\* with the pool's note that it has had the handle validated.
NoCtx == <<>>
FreshSession ==
    [state |-> "none", authed |-> FALSE, ctx |-> NoCtx,
     health |-> "live", refs |-> 0, checked |-> FALSE]
ClosedSession == [FreshSession EXCEPT !.state = "closed"]

\* What the server answers to the probe, statement 0 of the response: no
\* result at all, NONE, a 64-bit integer hi * 2^32 + lo, a string, or the
\* statement's error.
Raw(kind, hi, lo, e) == [kind |-> kind, hi |-> hi, lo |-> lo, err |-> e]
RawEmpty == Raw("empty", 0, 0, NoErr)
RawNone == Raw("none", 0, 0, NoErr)
RawInt(hi, lo) == Raw("int", hi, lo, NoErr)
RawString == Raw("string", 0, 0, NoErr)
RawError(e) == Raw("error", 0, 0, e)
Sentinel == RawInt(0, 1)
RawResults ==
    {RawEmpty, RawNone, RawString, RawError(ErrNotAllowed)}
        \cup {Sentinel, RawInt(0, 2), RawInt(1, 1)}

\* Result<Option<i32>, Error>
TakeOk(some, val) == [ok |-> TRUE, some |-> some, val |-> val, err |-> NoErr]
TakeErr(e) == [ok |-> FALSE, some |-> FALSE, val |-> 0, err |-> e]

\* response.take(0) as Option<i32>: a missing or NONE result is None, an
\* integer that fits 32 bits is Some, a statement error is that error and
\* anything else fails to deserialize.
take0(raw) ==
    CASE raw.kind = "empty"  -> TakeOk(FALSE, 0)
      [] raw.kind = "none"   -> TakeOk(FALSE, 0)
      [] raw.kind = "int"    -> IF raw.hi = 0 THEN TakeOk(TRUE, raw.lo)
                                              ELSE TakeErr(ErrFromValue)
      [] raw.kind = "string" -> TakeErr(ErrFromValue)
      [] raw.kind = "error"  -> TakeErr(raw.err)

\* One call of the client interface, as a recording transport would log it.
\* args are the strings the manager passed, raw is what a query answered.
Call(name, s, args, ok, e) ==
    [call |-> name, session |-> s, args |-> args, ok |-> ok, err |-> e,
     raw |-> RawEmpty]
QueryCall(s, args, raw) ==
    [call |-> "query", session |-> s, args |-> args, ok |-> TRUE, err |-> NoErr,
     raw |-> raw]

\* The contexts a borrower selects: use_ns(..).use_db(..)
Namespaces == {"accounts"}
Databases == {"users"}

VARIABLES
    mgr,        \* the SurrealDBConnectionManager (self)
    built,      \* the constructor call that made it, with its arguments
    sessions,   \* the client library's sessions
    held,       \* references to each handle held by the pool and borrowers
    pc,         \* where each task is in its call
    op,         \* the manager method each task is running
    local,      \* the locals of each task's call: full_url, db, conn
    result,     \* what each task's call returned
    log         \* the client calls each task's current call has made

vars == <<mgr, built, sessions, held, pc, op, local, result, log>>

NoLocals == [full_url |-> "", db |-> NoSession, conn |-> NoSession]

\* The calls that construct a manager: new takes no protocol.
NoProtocol == "default"
Constructions ==
    [ctor : {"new"}, protocol : {NoProtocol},
     db_url : Addresses, db_user : Users, db_password : Passwords]
        \cup [ctor : {"new_with_protocol"}, protocol : Protocols,
              db_url : Addresses, db_user : Users, db_password : Passwords]
Build(b) ==
    IF b.ctor = "new"
        THEN new(b.db_url, b.db_user, b.db_password)
        ELSE new_with_protocol(b.protocol, b.db_url, b.db_user, b.db_password)

Init ==
    /\ built \in Constructions
    /\ mgr = Build(built)
    /\ sessions = [s \in SessionIds |-> FreshSession]
    /\ held = [s \in SessionIds |-> 0]
    /\ pc = [t \in Tasks |-> "idle"]
    /\ op = [t \in Tasks |-> "none"]
    /\ local = [t \in Tasks |-> NoLocals]
    /\ result = [t \in Tasks |-> NoResult]
    /\ log = [t \in Tasks |-> <<>>]

\* ------------------------------------------------------ session helpers
Unused == {s \in SessionIds : sessions[s].state = "none"}
Dialling == {t \in Tasks : pc[t] = "connecting"}

\* DropDb as it would be were db kept alive past the return.
DropDb_leaked(ss, s) == ss

\* Dropping a Surreal<Any> that is not shared closes its session.
DropDb(ss, s) == [ss EXCEPT ![s] = ClosedSession]

\* Dropping one Arc<Surreal<Any>>: the last reference closes the session.
DropArc(ss, s) ==
    IF ss[s].refs = 1 THEN [ss EXCEPT ![s] = ClosedSession]
                      ELSE [ss EXCEPT ![s].refs = @ - 1]

\* ArcNew as it would be were a clone of the handle kept in the manager.
ArcNew_retained(ss, s) == [ss EXCEPT ![s].refs = 2]

\* Arc::new(db)
ArcNew(ss, s) == [ss EXCEPT ![s].refs = 1]

\* ---------------------------------------------------------------- connect
\* connect(&self): line 78, then the call of any::connect is in flight.
ConnectCall(t) ==
    /\ pc[t] = "idle"
    /\ Cardinality(Unused) > Cardinality(Dialling)
    /\ pc' = [pc EXCEPT ![t] = "connecting"]
    /\ op' = [op EXCEPT ![t] = "connect"]
    /\ local' = [local EXCEPT ![t] = [NoLocals EXCEPT !.full_url = full_url_of(mgr)]]
    /\ result' = [result EXCEPT ![t] = NoResult]
    /\ log' = [log EXCEPT ![t] = <<>>]
    /\ UNCHANGED <<mgr, built, sessions, held>>

\* ConnectOk as it would be were one session kept and handed to every call.
ConnectOk_cached(t) ==
    /\ pc[t] = "connecting"
    /\ local[t].full_url \in ServerUrls
    /\ sessions[1].state # "closed"
    /\ sessions' = [sessions EXCEPT ![1].state = "open"]
    /\ local' = [local EXCEPT ![t].db = 1]
    /\ log' = [log EXCEPT ![t] =
                  Append(@, Call("connect", 1, <<local[t].full_url>>, TRUE, NoErr))]
    /\ pc' = [pc EXCEPT ![t] = "signing_in"]
    /\ UNCHANGED <<mgr, built, held, op, result>>

\* any::connect(full_url).await succeeded: db is bound and signin is issued.
ConnectOk(t) ==
    /\ pc[t] = "connecting"
    /\ local[t].full_url \in ServerUrls
    /\ \E s \in Unused :
        /\ \A u \in Unused : s <= u
        /\ sessions' = [sessions EXCEPT ![s].state = "open"]
        /\ local' = [local EXCEPT ![t].db = s]
        /\ log' = [log EXCEPT ![t] = Append(@, Call("connect", s, <<local[t].full_url>>, TRUE, NoErr))]
    /\ pc' = [pc EXCEPT ![t] = "signing_in"]
    /\ UNCHANGED <<mgr, built, held, op, result>>

\* ConnectErr as it would be with a retry of the dial inside connect.
ConnectErr_retrying(t, e) ==
    /\ pc[t] = "connecting"
    /\ log' = [log EXCEPT ![t] =
                  Append(@, Call("connect", NoSession, <<local[t].full_url>>, FALSE, e))]
    /\ IF Len(log[t]) = 0
         THEN UNCHANGED <<pc, result>>
         ELSE /\ result' = [result EXCEPT ![t] = Err(e)]
              /\ pc' = [pc EXCEPT ![t] = "returned"]
    /\ UNCHANGED <<mgr, built, sessions, held, op, local>>

\* ConnectErr as it would be with a cleanup that closes on every error.
ConnectErr_closing(t, e) ==
    /\ pc[t] = "connecting"
    /\ log' = [log EXCEPT ![t] =
                  @ \o <<Call("connect", NoSession, <<local[t].full_url>>, FALSE, e),
                         Call("close", NoSession, <<>>, TRUE, NoErr)>>]
    /\ result' = [result EXCEPT ![t] = Err(e)]
    /\ pc' = [pc EXCEPT ![t] = "returned"]
    /\ UNCHANGED <<mgr, built, sessions, held, op, local>>

\* any::connect(full_url).await? failed: the error is returned.
ConnectErr(t, e) ==
    /\ pc[t] = "connecting"
    /\ log' = [log EXCEPT ![t] = Append(@, Call("connect", NoSession, <<local[t].full_url>>, FALSE, e))]
    /\ result' = [result EXCEPT ![t] = Err(e)]
    /\ pc' = [pc EXCEPT ![t] = "returned"]
    /\ UNCHANGED <<mgr, built, sessions, held, op, local>>

\* SigninOk as it would be were a namespace and database selected before
\* the handle is returned.
SigninOk_selecting(t) ==
    /\ pc[t] = "signing_in"
    /\ LET s == local[t].db IN
        /\ sessions[s].state = "open"
        /\ sessions[s].health = "live"
        /\ signin_args(mgr) = <<RootUser, RootPassword>>
        /\ sessions' = ArcNew([sessions EXCEPT ![s].authed = TRUE,
                                               ![s].ctx = <<"accounts", "users">>], s)
        /\ log' = [log EXCEPT ![t] =
                      Append(@, Call("signin", s, signin_args(mgr), TRUE, NoErr))]
        /\ result' = [result EXCEPT ![t] = Ok(s)]
    /\ local' = [local EXCEPT ![t].db = NoSession]
    /\ pc' = [pc EXCEPT ![t] = "returned"]
    /\ UNCHANGED <<mgr, built, held, op>>

\* db.signin(Root {..}).await succeeded: Ok(Arc::new(db)).
SigninOk(t) ==
    /\ pc[t] = "signing_in"
    /\ LET s == local[t].db IN
        /\ sessions[s].state = "open"
        /\ sessions[s].health = "live"
        /\ signin_args(mgr) = <<RootUser, RootPassword>>
        /\ sessions' = ArcNew([sessions EXCEPT ![s].authed = TRUE], s)
        /\ log' = [log EXCEPT ![t] =
                      Append(@, Call("signin", s, signin_args(mgr), TRUE, NoErr))]
        /\ result' = [result EXCEPT ![t] = Ok(s)]
    /\ local' = [local EXCEPT ![t].db = NoSession]
    /\ pc' = [pc EXCEPT ![t] = "returned"]
    /\ UNCHANGED <<mgr, built, held, op>>

\* SigninErr as it would be were every failure of connect reported as one
\* and the same error.
SigninErr_masked(t, e) ==
    /\ pc[t] = "signing_in"
    /\ LET s == local[t].db IN
        /\ e = ErrInvalidAuth =>
              /\ sessions[s].health = "live"
              /\ signin_args(mgr) # <<RootUser, RootPassword>>
        /\ sessions' = DropDb(sessions, s)
        /\ log' = [log EXCEPT ![t] =
                      @ \o <<Call("signin", s, signin_args(mgr), FALSE, e),
                             Call("close", s, <<>>, TRUE, NoErr)>>]
    /\ result' = [result EXCEPT ![t] = Err(ErrTransport)]
    /\ local' = [local EXCEPT ![t].db = NoSession]
    /\ pc' = [pc EXCEPT ![t] = "returned"]
    /\ UNCHANGED <<mgr, built, held, op>>

\* SigninErr as it would be were the error wrapped to name the step.
SigninErr_tagged(t, e) ==
    /\ pc[t] = "signing_in"
    /\ LET s == local[t].db IN
        /\ e = ErrInvalidAuth =>
              /\ sessions[s].health = "live"
              /\ signin_args(mgr) # <<RootUser, RootPassword>>
        /\ sessions' = DropDb(sessions, s)
        /\ log' = [log EXCEPT ![t] =
                      @ \o <<Call("signin", s, signin_args(mgr), FALSE, e),
                             Call("close", s, <<>>, TRUE, NoErr)>>]
    /\ result' = [result EXCEPT ![t] = Err("Auth(" \o e \o ")")]
    /\ local' = [local EXCEPT ![t].db = NoSession]
    /\ pc' = [pc EXCEPT ![t] = "returned"]
    /\ UNCHANGED <<mgr, built, held, op>>

\* SigninErr as it would be were the result of signin ignored.
SigninErr_ignored(t, e) ==
    /\ pc[t] = "signing_in"
    /\ LET s == local[t].db IN
        /\ e = ErrInvalidAuth =>
              /\ sessions[s].health = "live"
              /\ signin_args(mgr) # <<RootUser, RootPassword>>
        /\ sessions' = ArcNew(sessions, s)
        /\ log' = [log EXCEPT ![t] =
                      Append(@, Call("signin", s, signin_args(mgr), FALSE, e))]
        /\ result' = [result EXCEPT ![t] = Ok(s)]
    /\ local' = [local EXCEPT ![t].db = NoSession]
    /\ pc' = [pc EXCEPT ![t] = "returned"]
    /\ UNCHANGED <<mgr, built, held, op>>

\* db.signin(Root {..}).await? failed: db goes out of scope, the error is
\* returned.
SigninErr(t, e) ==
    /\ pc[t] = "signing_in"
    /\ LET s == local[t].db IN
        /\ e = ErrInvalidAuth =>
              /\ sessions[s].health = "live"
              /\ signin_args(mgr) # <<RootUser, RootPassword>>
        /\ sessions' = DropDb(sessions, s)
        /\ log' = [log EXCEPT ![t] =
                      @ \o <<Call("signin", s, signin_args(mgr), FALSE, e),
                             Call("close", s, <<>>, TRUE, NoErr)>>]
    /\ result' = [result EXCEPT ![t] = Err(e)]
    /\ local' = [local EXCEPT ![t].db = NoSession]
    /\ pc' = [pc EXCEPT ![t] = "returned"]
    /\ UNCHANGED <<mgr, built, held, op>>

\* ------------------------------------------------------------------ check
\* What the server answers to "RETURN 1" on session s.
Responses(sess) ==
    CASE sess.health = "odd" -> RawResults \ {Sentinel}
      [] sess.authed         -> {Sentinel}
      [] OTHER               -> {Sentinel, RawError(ErrNotAllowed)}

\* check_result as it would be were a failed extraction replaced by a
\* default.
check_result_defaulting(conn, raw) ==
    LET r == take0(raw) IN
    IF ~r.ok THEN Ok(conn)
    ELSE IF r.some /\ r.val = 1 THEN Ok(conn)
    ELSE Err(ErrHealthCheck)

\* check_result as it would be were a failed extraction taken for a value
\* that is missing.
check_result_flattened(conn, raw) ==
    LET r == take0(raw) IN
    IF r.ok /\ r.some /\ r.val = 1 THEN Ok(conn)
    ELSE Err(ErrHealthCheck)

\* check_result as it would be were only a wrong value unhealthy, not a
\* missing one.
check_result_lenient(conn, raw) ==
    LET r == take0(raw) IN
    IF ~r.ok THEN Err(r.err)
    ELSE IF ~r.some \/ r.val = 1 THEN Ok(conn)
    ELSE Err(ErrHealthCheck)

\* check_result as it would be were a fresh handle returned on success.
check_result_renewed(conn, raw) ==
    LET r == take0(raw) IN
    IF ~r.ok THEN Err(r.err)
    ELSE IF r.some /\ r.val = 1 THEN Ok((conn % MaxSessions) + 1)
    ELSE Err(ErrHealthCheck)

\* Lines 93-100: extract the first result and compare it with Some(1).
check_result(conn, raw) ==
    LET r == take0(raw) IN
    IF ~r.ok THEN Err(r.err)
    ELSE IF r.some /\ r.val = 1 THEN Ok(conn)
    ELSE Err(ErrHealthCheck)

\* The close a recording transport sees when the last reference goes.
CloseIfLast(ss, s) ==
    IF ss[s].refs = 1 THEN <<Call("close", s, <<>>, TRUE, NoErr)>> ELSE <<>>

\* check(&self, conn): the pool moves its handle in, to one check at a time,
\* and conn.query("RETURN 1") is in flight.
CheckCall(t, s) ==
    /\ pc[t] = "idle"
    /\ held[s] >= 1
    /\ \A u \in Tasks : local[u].conn # s /\ result[u].handle # s
    /\ held' = [held EXCEPT ![s] = @ - 1]
    /\ pc' = [pc EXCEPT ![t] = "querying"]
    /\ op' = [op EXCEPT ![t] = "check"]
    /\ local' = [local EXCEPT ![t] = [NoLocals EXCEPT !.conn = s]]
    /\ result' = [result EXCEPT ![t] = NoResult]
    /\ log' = [log EXCEPT ![t] = <<>>]
    /\ UNCHANGED <<mgr, built, sessions>>

\* QueryErr as it would be were a failed probe reported as a failed health
\* check.
QueryErr_rewritten(t, e) ==
    /\ pc[t] = "querying"
    /\ LET s == local[t].conn IN
        /\ sessions[s].health = "severed"
        /\ sessions' = DropArc(sessions, s)
        /\ log' = [log EXCEPT ![t] =
                      (@ \o <<Call("query", s, <<probe_text>>, FALSE, e)>>)
                          \o CloseIfLast(sessions, s)]
    /\ result' = [result EXCEPT ![t] = Err(ErrHealthCheck)]
    /\ local' = [local EXCEPT ![t].conn = NoSession]
    /\ pc' = [pc EXCEPT ![t] = "returned"]
    /\ UNCHANGED <<mgr, built, held, op>>

\* QueryErr as it would be were a dead connection reconnected in place.
QueryErr_repairing(t, e) ==
    /\ pc[t] = "querying"
    /\ LET s == local[t].conn IN
        /\ sessions[s].health = "severed"
        /\ sessions' = [sessions EXCEPT ![s].health = "live"]
        /\ log' = [log EXCEPT ![t] =
                      @ \o <<Call("query", s, <<probe_text>>, FALSE, e),
                             Call("connect", s, <<full_url_of(mgr)>>, TRUE, NoErr),
                             Call("signin", s, signin_args(mgr), TRUE, NoErr)>>]
        /\ result' = [result EXCEPT ![t] = Ok(s)]
    /\ local' = [local EXCEPT ![t].conn = NoSession]
    /\ pc' = [pc EXCEPT ![t] = "returned"]
    /\ UNCHANGED <<mgr, built, held, op>>

\* conn.query("RETURN 1").await? failed: conn is dropped, the error returned.
QueryErr(t, e) ==
    /\ pc[t] = "querying"
    /\ LET s == local[t].conn IN
        /\ sessions[s].health = "severed"
        /\ sessions' = DropArc(sessions, s)
        /\ log' = [log EXCEPT ![t] =
                      (@ \o <<Call("query", s, <<probe_text>>, FALSE, e)>>) \o CloseIfLast(sessions, s)]
    /\ result' = [result EXCEPT ![t] = Err(e)]
    /\ local' = [local EXCEPT ![t].conn = NoSession]
    /\ pc' = [pc EXCEPT ![t] = "returned"]
    /\ UNCHANGED <<mgr, built, held, op>>

\* QueryOk as it would be were the probe to select a context first.
QueryOk_resetting(t, raw) ==
    /\ pc[t] = "querying"
    /\ LET s == local[t].conn
           r == check_result(s, raw) IN
        /\ sessions[s].health # "severed"
        /\ raw \in Responses(sessions[s])
        /\ result' = [result EXCEPT ![t] = r]
        /\ sessions' = IF r.ok THEN [sessions EXCEPT ![s].ctx = NoCtx]
                               ELSE DropArc(sessions, s)
        /\ log' = [log EXCEPT ![t] =
                      (@ \o <<QueryCall(s, <<probe_text>>, raw)>>)
                          \o (IF r.ok THEN <<>> ELSE CloseIfLast(sessions, s))]
    /\ local' = [local EXCEPT ![t].conn = NoSession]
    /\ pc' = [pc EXCEPT ![t] = "returned"]
    /\ UNCHANGED <<mgr, built, held, op>>

\* conn.query("RETURN 1").await succeeded with a response: lines 93-100 run
\* without suspending.
QueryOk(t, raw) ==
    /\ pc[t] = "querying"
    /\ LET s == local[t].conn
           r == check_result(s, raw) IN
        /\ sessions[s].health # "severed"
        /\ raw \in Responses(sessions[s])
        /\ result' = [result EXCEPT ![t] = r]
        /\ sessions' = IF r.ok THEN sessions ELSE DropArc(sessions, s)
        /\ log' = [log EXCEPT ![t] =
                      (@ \o <<QueryCall(s, <<probe_text>>, raw)>>)
                          \o (IF r.ok THEN <<>> ELSE CloseIfLast(sessions, s))]
    /\ local' = [local EXCEPT ![t].conn = NoSession]
    /\ pc' = [pc EXCEPT ![t] = "returned"]
    /\ UNCHANGED <<mgr, built, held, op>>

\* Cancel as it would be were the locals of a dropped future never dropped.
Cancel_leaking(t) ==
    /\ pc[t] \in {"connecting", "signing_in", "querying"}
    /\ local' = [local EXCEPT ![t] = NoLocals]
    /\ pc' = [pc EXCEPT ![t] = "cancelled"]
    /\ UNCHANGED <<mgr, built, sessions, held, op, result, log>>

\* The caller drops the future of a call that is suspended at an .await:
\* the locals of the call are dropped with it.
Cancel(t) ==
    /\ pc[t] \in {"connecting", "signing_in", "querying"}
    /\ sessions' =
          CASE pc[t] = "signing_in" -> DropDb(sessions, local[t].db)
            [] pc[t] = "querying"   -> DropArc(sessions, local[t].conn)
            [] OTHER                -> sessions
    /\ log' = [log EXCEPT ![t] =
          CASE pc[t] = "signing_in" -> @ \o <<Call("close", local[t].db, <<>>, TRUE, NoErr)>>
            [] pc[t] = "querying"   -> @ \o CloseIfLast(sessions, local[t].conn)
            [] OTHER                -> @]
    /\ local' = [local EXCEPT ![t] = NoLocals]
    /\ pc' = [pc EXCEPT ![t] = "cancelled"]
    /\ UNCHANGED <<mgr, built, held, op, result>>

\* ------------------------------------------------- the pool and borrowers
\* A borrower selects its context: conn.use_ns(ns).use_db(db).
UseCtx(s, ns, db) ==
    /\ held[s] >= 1
    /\ sessions[s].health # "severed"
    /\ sessions[s].ctx # <<ns, db>>
    /\ sessions' = [sessions EXCEPT ![s].ctx = <<ns, db>>]
    /\ UNCHANGED <<mgr, built, held, pc, op, local, result, log>>

\* A holder clones the Arc.
CloneRef(s) ==
    /\ held[s] >= 1
    /\ sessions[s].refs < MaxRefs
    /\ held' = [held EXCEPT ![s] = @ + 1]
    /\ sessions' = [sessions EXCEPT ![s].refs = @ + 1]
    /\ UNCHANGED <<mgr, built, pc, op, local, result, log>>

\* A holder drops its reference.
DropRef(s) ==
    /\ held[s] >= 1
    /\ held' = [held EXCEPT ![s] = @ - 1]
    /\ sessions' = DropArc(sessions, s)
    /\ UNCHANGED <<mgr, built, pc, op, local, result, log>>

\* The transport of an open session is cut.
Sever(s) ==
    /\ sessions[s].state = "open"
    /\ sessions[s].health # "severed"
    /\ sessions' = [sessions EXCEPT ![s].health = "severed"]
    /\ UNCHANGED <<mgr, built, held, pc, op, local, result, log>>

\* The server stops answering an open session's statements as it should.
Degrade(s) ==
    /\ sessions[s].state = "open"
    /\ sessions[s].health = "live"
    /\ sessions' = [sessions EXCEPT ![s].health = "odd"]
    /\ UNCHANGED <<mgr, built, held, pc, op, local, result, log>>

\* The pool takes what the call returned.
Collect(t) ==
    /\ pc[t] \in {"returned", "cancelled"}
    /\ held' = IF result[t].ok
                 THEN [held EXCEPT ![result[t].handle] = @ + 1]
                 ELSE held
    /\ sessions' = IF result[t].ok /\ op[t] = "check"
                     THEN [sessions EXCEPT ![result[t].handle].checked = TRUE]
                     ELSE sessions
    /\ pc' = [pc EXCEPT ![t] = "idle"]
    /\ op' = [op EXCEPT ![t] = "none"]
    /\ result' = [result EXCEPT ![t] = NoResult]
    /\ log' = [log EXCEPT ![t] = <<>>]
    /\ UNCHANGED <<mgr, built, local>>

Next ==
    \/ \E t \in Tasks : ConnectCall(t)
    \/ \E t \in Tasks : ConnectOk(t)
    \/ \E t \in Tasks, e \in DialErrors : ConnectErr(t, e)
    \/ \E t \in Tasks : SigninOk(t)
    \/ \E t \in Tasks, e \in SigninErrors : SigninErr(t, e)
    \/ \E t \in Tasks, s \in SessionIds : CheckCall(t, s)
    \/ \E t \in Tasks, e \in QueryErrors : QueryErr(t, e)
    \/ \E t \in Tasks, raw \in RawResults : QueryOk(t, raw)
    \/ \E t \in Tasks : Cancel(t)
    \/ \E t \in Tasks : Collect(t)
    \/ \E s \in SessionIds, ns \in Namespaces, db \in Databases : UseCtx(s, ns, db)
    \/ \E s \in SessionIds : CloneRef(s)
    \/ \E s \in SessionIds : DropRef(s)
    \/ \E s \in SessionIds : Sever(s)
    \/ \E s \in SessionIds : Degrade(s)

Spec == Init /\ [][Next]_vars

\* ------------------------------------------------------------ properties
Returned(t, o) == pc[t] = "returned" /\ op[t] = o
Entries(t, name) == {i \in 1..Len(log[t]) : log[t][i].call = name}
FailedAtConnect(t) ==
    Returned(t, "connect") /\ \E i \in Entries(t, "connect") : ~log[t][i].ok
FailedAtSignin(t) ==
    Returned(t, "connect") /\ \E i \in Entries(t, "signin") : ~log[t][i].ok

\* C1: a connect that returns a handle made exactly two client calls, in
\* this order and on the session of the handle: a successful any::connect
\* of the composed URL, then a successful signin with the stored username
\* and password.  A signin is only ever issued on the session a successful
\* any::connect of the same call opened.
C1_ConnectThenSignin ==
    \A t \in Tasks :
        /\ (Returned(t, "connect") /\ result[t].ok) =>
              /\ result[t].handle \in SessionIds
              /\ log[t] =
                    <<Call("connect", result[t].handle,
                           <<as_str(mgr.protocol) \o mgr.db_url>>, TRUE, NoErr),
                      Call("signin", result[t].handle,
                           <<mgr.db_user, mgr.db_password>>, TRUE, NoErr)>>
        /\ (pc[t] = "signing_in") =>
              /\ local[t].db \in SessionIds
              /\ log[t] = <<Call("connect", local[t].db,
                                  <<as_str(mgr.protocol) \o mgr.db_url>>, TRUE, NoErr)>>
        /\ \A i \in Entries(t, "signin") :
              /\ i = 2
              /\ log[t][1].call = "connect" /\ log[t][1].ok
              /\ log[t][1].session = log[t][i].session

C1_Witness ==
    \E t \in Tasks : Returned(t, "connect") /\ result[t].ok /\ Len(log[t]) = 2

\* C2: when connect has returned an error, every session that call opened
\* is closed.
C2_NoLeakOnError ==
    \A t \in Tasks :
        (Returned(t, "connect") /\ ~result[t].ok) =>
            \A i \in Entries(t, "connect") :
                log[t][i].ok =>
                    /\ sessions[log[t][i].session].state = "closed"
                    /\ \E j \in Entries(t, "close") :
                          j > i /\ log[t][j].session = log[t][i].session

C2_Witness ==
    \E t \in Tasks :
        /\ FailedAtSignin(t)
        /\ log[t][1].call = "connect" /\ log[t][1].ok
        /\ sessions[log[t][1].session].state = "closed"

\* C4: a connect whose dial fails returns the error of the dial, having
\* made that one client call only: no signin, no session opened, no close.
\* Against an endpoint where nothing listens no session is ever opened.
C4_DialFailure ==
    /\ \A t \in Tasks :
          FailedAtConnect(t) =>
              /\ Len(log[t]) = 1
              /\ log[t][1].session = NoSession
              /\ log[t][1].err \in DialErrors
              /\ result[t] = Err(log[t][1].err)
              /\ Entries(t, "signin") = {} /\ Entries(t, "close") = {}
    /\ (as_str(mgr.protocol) \o mgr.db_url) \notin ServerUrls =>
          /\ \A s \in SessionIds : sessions[s].state = "none"
          /\ \A t \in Tasks : Returned(t, "connect") => FailedAtConnect(t)

C4_Witness ==
    \E t \in Tasks :
        /\ FailedAtConnect(t)
        /\ (as_str(mgr.protocol) \o mgr.db_url) \notin ServerUrls

\* C3 as claimed: a connect that failed in signin returns no handle and an
\* error a caller can tell from the error of a connect that failed in the
\* dial.
C3_AuthErrorDistinct ==
    \A t, u \in Tasks :
        (FailedAtSignin(t) /\ FailedAtConnect(u)) =>
            /\ ~result[t].ok /\ result[t].handle = NoSession
            /\ result[t] # result[u]

\* C3 as amended: a connect that failed in signin returns no handle and
\* the error of the signin call, unchanged.  When the failure is the
\* server's rejection of the credentials that error differs from the error
\* of every connect that failed in the dial.
C3_AuthErrorPropagated ==
    \A t \in Tasks :
        FailedAtSignin(t) =>
            /\ ~result[t].ok /\ result[t].handle = NoSession
            /\ result[t].err = log[t][2].err
            /\ result[t].err # NoErr
            /\ log[t][2].err = ErrInvalidAuth =>
                  \A u \in Tasks : FailedAtConnect(u) => result[t] # result[u]

C3_Witness ==
    \E t, u \in Tasks :
        /\ FailedAtSignin(t) /\ result[t].err = ErrInvalidAuth
        /\ FailedAtConnect(u)

\* The probe of a check that has returned: the one query in its log.
Probed(t) == Returned(t, "check") /\ Entries(t, "query") = {1}
ProbeAnswered(t) == Probed(t) /\ log[t][1].ok
ProbeFailed(t) == Probed(t) /\ ~log[t][1].ok

\* C5 as claimed: a check whose probe is answered with anything but the
\* integer 1 fails with the "Health check failed" error.
C5_NonSentinelIsHealthCheckError ==
    \A t \in Tasks :
        (ProbeAnswered(t) /\ log[t][1].raw # Sentinel) =>
            result[t] = Err(ErrHealthCheck)

\* C5 as amended: a check whose probe is answered with anything but the
\* integer 1 fails and returns no handle.  The error is "Health check
\* failed" when the answer extracts as no value or as a 32-bit integer
\* other than 1, and the error of the extraction when it does not extract.
C5_NonSentinelFails ==
    \A t \in Tasks :
        (ProbeAnswered(t) /\ log[t][1].raw # Sentinel) =>
            /\ ~result[t].ok /\ result[t].handle = NoSession
            /\ log[t][1].raw.kind \in {"empty", "none"} =>
                  result[t].err = ErrHealthCheck
            /\ (log[t][1].raw.kind = "int" /\ log[t][1].raw.hi = 0) =>
                  result[t].err = ErrHealthCheck
            /\ (log[t][1].raw.kind = "int" /\ log[t][1].raw.hi # 0) =>
                  result[t].err = ErrFromValue
            /\ log[t][1].raw.kind = "string" => result[t].err = ErrFromValue
            /\ log[t][1].raw.kind = "error" => result[t].err = log[t][1].raw.err

C5_Witness ==
    \E t \in Tasks :
        /\ ProbeAnswered(t)
        /\ log[t][1].raw = RawEmpty
        /\ result[t] = Err(ErrHealthCheck)

\* C6: a check whose probe call fails returns no handle and the error of
\* the probe, which is not the "Health check failed" error.
C6_ProbeErrorPropagated ==
    \A t \in Tasks :
        ProbeFailed(t) =>
            /\ ~result[t].ok /\ result[t].handle = NoSession
            /\ result[t].err = log[t][1].err
            /\ result[t].err \notin {NoErr, ErrHealthCheck}

C6_Witness ==
    \E t \in Tasks : ProbeFailed(t) /\ result[t] = Err(ErrTransport)

\* The step in which the probe of task t's check comes back.
ProbeReturns(t) == pc[t] = "querying" /\ pc'[t] = "returned"
Live(s) ==
    /\ sessions[s].state = "open"
    /\ sessions[s].health = "live"
    /\ sessions[s].authed

\* C7: every check of a live handle, the first or a repeated one, succeeds
\* and leaves the session as it was: the selected namespace and database,
\* the authentication and the reference count are those before the check.
C7_CheckIdempotent ==
    [][\A t \in Tasks :
          (ProbeReturns(t) /\ Live(local[t].conn)) =>
              /\ result'[t] = Ok(local[t].conn)
              /\ sessions'[local[t].conn] = sessions[local[t].conn]]_vars

C7_Witness ==
    \E t \in Tasks :
        /\ ProbeAnswered(t) /\ result[t].ok
        /\ sessions[result[t].handle].checked
        /\ sessions[result[t].handle].ctx # NoCtx

\* C8: a check that succeeds returns the handle it probed, still open, and
\* no check makes a connect or a signin call.
C8_CheckReturnsSameHandle ==
    \A t \in Tasks :
        op[t] = "check" =>
            /\ Entries(t, "connect") = {} /\ Entries(t, "signin") = {}
            /\ (Returned(t, "check") /\ result[t].ok) =>
                  /\ log[t] = <<QueryCall(result[t].handle, <<probe_text>>, Sentinel)>>
                  /\ sessions[result[t].handle].state = "open"
                  /\ sessions[result[t].handle].refs >= 1

C8_Witness ==
    \E t \in Tasks :
        /\ Returned(t, "check") /\ result[t].ok
        /\ log[t][1].session = result[t].handle

\* A handle as connect returns it and nobody has touched since: open, the
\* server answering, no context selected, never validated.
Untouched(s) ==
    /\ sessions[s].state = "open"
    /\ sessions[s].health = "live"
    /\ sessions[s].ctx = NoCtx
    /\ ~sessions[s].checked

\* C9: the check of a handle that connect returned and nobody has touched
\* since succeeds.
C9_FreshHandleValidates ==
    [][\A t \in Tasks :
          (ProbeReturns(t) /\ Untouched(local[t].conn)) =>
              (result'[t].ok /\ result'[t].handle = local[t].conn)]_vars

C9_Witness ==
    \E t \in Tasks :
        /\ ProbeAnswered(t) /\ result[t].ok
        /\ Untouched(result[t].handle)

\* C10: one connect makes at most one any::connect call and at most one
\* signin call, one check makes exactly one query call, and the first call
\* that fails is the last one made: its error is what the call returns.
C10_NoRetry ==
    \A t \in Tasks :
        /\ Cardinality(Entries(t, "connect")) <= 1
        /\ Cardinality(Entries(t, "signin")) <= 1
        /\ Cardinality(Entries(t, "query")) <= 1
        /\ pc[t] \in {"connecting", "querying"} => log[t] = <<>>
        /\ pc[t] = "signing_in" => Len(log[t]) = 1
        /\ Returned(t, "check") => Cardinality(Entries(t, "query")) = 1
        /\ \A i \in 1..Len(log[t]) :
              ~log[t][i].ok =>
                  /\ pc[t] = "returned"
                  /\ result[t] = Err(log[t][i].err)
                  /\ \A j \in (i + 1)..Len(log[t]) : log[t][j].call = "close"

C10_Witness ==
    \E t, u \in Tasks :
        /\ FailedAtConnect(t) /\ Len(log[t]) = 1
        /\ ProbeFailed(u)

\* C11: connects that run concurrently work on sessions of their own.  Two
\* calls that are past the dial hold different sessions, and two calls that
\* have returned handles returned different ones, each open, signed in,
\* referenced once and reached by its own connect and signin.
InConnect(t) == op[t] = "connect" /\ pc[t] \in {"signing_in", "returned"}
SessionOf(t) == IF pc[t] = "signing_in" THEN local[t].db ELSE result[t].handle

C11_IndependentHandles ==
    \A t, u \in Tasks :
        /\ (t # u /\ InConnect(t) /\ InConnect(u)
               /\ SessionOf(t) # NoSession /\ SessionOf(u) # NoSession) =>
              SessionOf(t) # SessionOf(u)
        /\ (Returned(t, "connect") /\ result[t].ok) =>
              /\ sessions[result[t].handle].state = "open"
              /\ sessions[result[t].handle].authed
              /\ sessions[result[t].handle].refs = 1
              /\ held[result[t].handle] = 0
              /\ \A i \in 1..Len(log[t]) : log[t][i].session = result[t].handle

C11_Witness ==
    \A t \in Tasks :
        /\ Returned(t, "connect") /\ result[t].ok
        /\ \A u \in Tasks \ {t} : result[u].handle # result[t].handle

\* The references to handle s that calls in flight own: a conn moved into a
\* check, or a handle returned and not yet taken.
InFlightRefs(s) ==
    Cardinality({t \in Tasks : local[t].conn = s})
        + Cardinality({t \in Tasks : result[t].ok /\ result[t].handle = s})
Accounted(s) == sessions[s].refs = held[s] + InFlightRefs(s)
Owned(s) ==
    sessions[s].state = "open" =>
        \/ \E t \in Tasks : pc[t] = "signing_in" /\ local[t].db = s
        \/ sessions[s].refs >= 1

\* C12: after a call is cancelled at an await nothing of it is left: the
\* call holds no session and no handle, a session it opened is closed, and
\* every open session is owned by a call still running or by the holders
\* of its handle, reference for reference.
C12_CancelLeavesNothing ==
    \A t \in Tasks :
        pc[t] = "cancelled" =>
            /\ local[t] = NoLocals /\ result[t] = NoResult
            /\ \A i \in Entries(t, "connect") :
                  log[t][i].ok =>
                      /\ sessions[log[t][i].session].state = "closed"
                      /\ \E j \in Entries(t, "close") :
                            j > i /\ log[t][j].session = log[t][i].session
            /\ \A s \in SessionIds : Owned(s) /\ Accounted(s)

C12_Witness ==
    \E t, u \in Tasks :
        /\ pc[t] = "cancelled" /\ op[t] = "connect"
        /\ Entries(t, "connect") = {1} /\ log[t][1].ok
        /\ pc[u] = "cancelled" /\ op[u] = "check"

\* The steps in which task t's check comes back failed, and in which task
\* t's connect comes back with a handle.
ValidateFails(t) == ProbeReturns(t) /\ ~result'[t].ok
CreateSucceeds(t) ==
    /\ op[t] = "connect" /\ pc[t] # "returned" /\ pc'[t] = "returned"
    /\ result'[t].ok

\* C13: a session only moves forward, from unconnected to open to closed.
\* A check that fails gives up its reference and makes no connect or
\* signin call; no step reopens a closed session, returns an open one to
\* unconnected or makes a session live again that has stopped being so;
\* and the handle a connect returns is one no earlier call has returned.
C13_NoRepairInPlace ==
    [][/\ \A s \in SessionIds :
            /\ sessions[s].state = "closed" => sessions'[s] = sessions[s]
            /\ sessions[s].state = "open" => sessions'[s].state # "none"
            /\ (sessions[s].state = "open" /\ sessions[s].health # "live"
                   /\ sessions'[s].state = "open") =>
                  sessions'[s].health # "live"
       /\ \A t \in Tasks :
            /\ ValidateFails(t) =>
                  /\ sessions'[local[t].conn] \in
                        {ClosedSession,
                         [sessions[local[t].conn] EXCEPT !.refs = @ - 1]}
                  /\ \A i \in 1..Len(log'[t]) :
                        log'[t][i].call \in {"query", "close"}
            /\ CreateSucceeds(t) =>
                  /\ sessions[result'[t].handle].refs = 0
                  /\ sessions[result'[t].handle].state = "open"
                  /\ held[result'[t].handle] = 0]_vars

C13_Witness ==
    \E t, u \in Tasks :
        /\ Probed(t) /\ ~result[t].ok
        /\ sessions[log[t][1].session].state = "closed"
        /\ Returned(u, "connect") /\ result[u].ok
        /\ result[u].handle # log[t][1].session

\* The scheme prefixes of the four transports.
SchemePrefix ==
    [Http |-> "http://", Https |-> "https://", Ws |-> "ws://", Wss |-> "wss://"]
Dialled(t) == op[t] = "connect" /\ pc[t] \in {"connecting", "signing_in", "returned"}

\* C14: the URL a connect dials is the prefix of the manager's scheme
\* followed by its address, character for character: nothing is inserted,
\* dropped or normalised, whatever the address.
C14_UrlIsPrefixThenAddress ==
    \A t \in Tasks :
        Dialled(t) =>
            /\ local[t].full_url = SchemePrefix[mgr.protocol] \o mgr.db_url
            /\ Len(local[t].full_url)
                  = Len(SchemePrefix[mgr.protocol]) + Len(mgr.db_url)
            /\ \A i \in Entries(t, "connect") :
                  log[t][i].args = <<SchemePrefix[mgr.protocol] \o mgr.db_url>>

C14_Witness ==
    \E t \in Tasks :
        /\ Dialled(t) /\ Entries(t, "connect") = {1}
        /\ mgr.protocol = "Wss" /\ mgr.db_url = "//localhost:9//"
        /\ local[t].full_url = "wss:////localhost:9//"

\* C15: whatever calls have been made, the manager is as constructed: its
\* protocol is Ws when it was built by new and the protocol given when it
\* was built by new_with_protocol, and its address, username and password
\* are those given.
C15_DescriptorImmutable ==
    /\ DOMAIN mgr = {"protocol", "db_url", "db_user", "db_password"}
    /\ built.ctor = "new" => mgr.protocol = "Ws"
    /\ built.ctor = "new_with_protocol" => mgr.protocol = built.protocol
    /\ mgr.db_url = built.db_url
    /\ mgr.db_user = built.db_user
    /\ mgr.db_password = built.db_password

C15_Witness ==
    \E t, u \in Tasks :
        /\ built.ctor = "new"
        /\ Returned(t, "connect") /\ result[t].ok
        /\ Probed(u) /\ ~result[u].ok

\* C16: the session of a connect, while it signs in and when it is
\* returned as a handle, has no namespace and no database selected, and
\* the calls a connect makes are the dial and the signin only.
C16_NoContextFromConnect ==
    \A t \in Tasks :
        /\ (op[t] = "connect" /\ pc[t] = "signing_in") =>
              sessions[local[t].db].ctx = NoCtx
        /\ (Returned(t, "connect") /\ result[t].ok) =>
              /\ sessions[result[t].handle].ctx = NoCtx
              /\ \A i \in 1..Len(log[t]) : log[t][i].call \in {"connect", "signin"}

C16_Witness ==
    \E t \in Tasks, s \in SessionIds :
        /\ Returned(t, "connect") /\ result[t].ok
        /\ sessions[result[t].handle].ctx = NoCtx
        /\ s # result[t].handle /\ sessions[s].ctx # NoCtx

\* C17: the manager holds no handle.  It has its four fields and nothing
\* else, and every reference to a handle is one the pool or a borrower
\* holds or one a call in flight was given or is returning.  A session with
\* a reference left is open, a closed one has none, and an open one
\* without any is the one a connect is still signing in.
C17_ManagerKeepsNoHandle ==
    /\ DOMAIN mgr = {"protocol", "db_url", "db_user", "db_password"}
    /\ \A s \in SessionIds :
          /\ Accounted(s)
          /\ sessions[s].refs >= 1 => sessions[s].state = "open"
          /\ sessions[s].state = "closed" => (sessions[s].refs = 0 /\ held[s] = 0)
          /\ (sessions[s].state = "open" /\ sessions[s].refs = 0) =>
                \E t \in Tasks : pc[t] = "signing_in" /\ local[t].db = s

C17_Witness ==
    \E s, c \in SessionIds :
        /\ sessions[s].state = "open" /\ sessions[s].refs = 2 /\ held[s] = 2
        /\ sessions[c].state = "closed"

\* A step of task t's call failed: a client call, or the extraction of the
\* probe's result.
ExtractionFailed(t) ==
    \E i \in Entries(t, "query") : log[t][i].ok /\ ~take0(log[t][i].raw).ok
StepFailed(t) ==
    \/ \E i \in 1..Len(log[t]) : ~log[t][i].ok
    \/ ExtractionFailed(t)

\* C18: a call one of whose steps failed (the dial, the signin, the probe
\* or the extraction of its result) returns an error and no handle, and a
\* call that returns a handle is one all of whose steps succeeded.
C18_NoErrorSwallowed ==
    \A t \in Tasks :
        pc[t] = "returned" =>
            /\ StepFailed(t) =>
                  /\ ~result[t].ok
                  /\ result[t].handle = NoSession
                  /\ result[t].err # NoErr
            /\ result[t].ok =>
                  /\ ~StepFailed(t)
                  /\ result[t].handle \in SessionIds
                  /\ result[t].err = NoErr

C18_Witness ==
    \E t, u \in Tasks :
        /\ Returned(t, "check") /\ ExtractionFailed(t) /\ ~result[t].ok
        /\ FailedAtSignin(u)

\* The probe's result does not decode as a 32-bit integer.
Undecodable(raw) == raw.kind = "string" \/ (raw.kind = "int" /\ raw.hi # 0)

\* C19: a check succeeds exactly when its probe was answered, the answer
\* was extracted and the value extracted is the integer 1.  When the
\* answer does not decode as an integer the check fails with the error of
\* the extraction, not with "Health check failed"; that error is for an
\* answer extracted as another integer or as no value.
C19_CheckSuccessIff ==
    \A t \in Tasks :
        Probed(t) =>
            /\ result[t].ok <=>
                  /\ log[t][1].ok
                  /\ take0(log[t][1].raw) = TakeOk(TRUE, 1)
            /\ (log[t][1].ok /\ Undecodable(log[t][1].raw)) =>
                  /\ result[t] = Err(ErrFromValue)
                  /\ result[t].err # ErrHealthCheck
            /\ (log[t][1].ok /\ take0(log[t][1].raw).ok
                   /\ take0(log[t][1].raw) # TakeOk(TRUE, 1)) =>
                  result[t] = Err(ErrHealthCheck)

C19_Witness ==
    \E t, u \in Tasks :
        /\ ProbeAnswered(t) /\ log[t][1].raw = RawInt(1, 1)
        /\ result[t] = Err(ErrFromValue)
        /\ ProbeAnswered(u) /\ log[u][1].raw = RawInt(0, 2)
        /\ result[u] = Err(ErrHealthCheck)

\* C20: what a failed connect returns is the error value of the client
\* call that failed, the dial or the signin, as the client produced it: one
\* type, no field naming the step, so that a dial and a signin that fail
\* with the same value make connect return the same value.
C20_ErrorsUnchanged ==
    \A t, u \in Tasks :
        /\ FailedAtConnect(t) =>
              /\ result[t] = Err(log[t][1].err)
              /\ DOMAIN result[t] = {"ok", "handle", "err"}
        /\ FailedAtSignin(t) =>
              /\ result[t] = Err(log[t][2].err)
              /\ DOMAIN result[t] = {"ok", "handle", "err"}
        /\ (FailedAtConnect(t) /\ FailedAtSignin(u)
               /\ log[t][1].err = log[u][2].err) =>
              result[t] = result[u]

C20_Witness ==
    \E t, u \in Tasks :
        /\ FailedAtConnect(t) /\ FailedAtSignin(u)
        /\ log[t][1].err = log[u][2].err
        /\ result[t] = result[u]
====
